---------------------------- MODULE Spec2Model ----------------------------
(***************************************************************************)
(* Model of src/server.js: the POST /api/convert handler and the           *)
(* getTranscript resolver behind it.  The file holds three revisions of    *)
(* the server:                                                             *)
(*   rev = 1  lines   1..279  three caption sources (A, B, C)              *)
(*   rev = 2  lines 280..527  captions.list probe, then source A           *)
(*   rev = 3  lines 528..     source A only                                *)
(* Strings are sequences of one-character strings, so that                 *)
(* String.prototype.includes is real (case-sensitive) substring search and *)
(* Array.prototype.join is real concatenation.                             *)
(***************************************************************************)
EXTENDS Integers, Sequences, FiniteSets, TLC

(***************************************************************************)
(* Bounds of the model.                                                    *)
(***************************************************************************)
MaxSegments == 2
MaxRequests == 2

(***************************************************************************)
(* String helpers.                                                         *)
(***************************************************************************)
\* s.includes(p): p occurs in s as a contiguous run of characters.
Includes(s, p) ==
    \E i \in 1..(Len(s) - Len(p) + 1) : SubSeq(s, i, i + Len(p) - 1) = p

RECURSIVE Join(_)
\* items.map(item => item.text).join(' ')
Join(items) ==
    IF items = <<>> THEN <<>>
    ELSE IF Len(items) = 1 THEN items[1]
    ELSE items[1] \o <<" ">> \o Join(Tail(items))

(***************************************************************************)
(* The messages the handler and the resolver build themselves.             *)
(***************************************************************************)
MsgVideoIdRequired == <<"V","i","d","e","o"," ","I","D"," ","i","s"," ","r","e","q","u","i","r","e","d">>
MsgApiKeyNotConfigured == <<"Y","o","u","T","u","b","e"," ","A","P","I"," ","k","e","y"," ","i","s"," ","n","o","t"," ","c","o","n","f","i","g","u","r","e","d">>
MsgVideoNotFound == <<"V","i","d","e","o"," ","n","o","t"," ","f","o","u","n","d">>
MsgCaptionsExist == <<"C","a","p","t","i","o","n","s"," ","e","x","i","s","t"," ","b","u","t"," ","c","o","u","l","d"," ","n","o","t"," ","b","e"," ","a","c","c","e","s","s","e","d","."," ","T","h","e"," ","v","i","d","e","o"," ","m","i","g","h","t"," ","h","a","v","e"," ","r","e","s","t","r","i","c","t","e","d"," ","c","a","p","t","i","o","n","s",".">>
MsgNoCaptions == <<"T","h","i","s"," ","v","i","d","e","o"," ","d","o","e","s"," ","n","o","t"," ","h","a","v","e"," ","a","v","a","i","l","a","b","l","e"," ","c","a","p","t","i","o","n","s","."," ","P","l","e","a","s","e"," ","t","r","y"," ","a"," ","d","i","f","f","e","r","e","n","t"," ","v","i","d","e","o",".">>
MsgUnavailable == <<"T","h","i","s"," ","v","i","d","e","o"," ","i","s"," ","p","r","i","v","a","t","e"," ","o","r"," ","u","n","a","v","a","i","l","a","b","l","e",".">>
MsgFetchFailed == <<"F","a","i","l","e","d"," ","t","o"," ","f","e","t","c","h"," ","t","r","a","n","s","c","r","i","p","t","."," ","P","l","e","a","s","e"," ","m","a","k","e"," ","s","u","r","e"," ","t","h","e"," ","v","i","d","e","o"," ","h","a","s"," ","c","a","p","t","i","o","n","s"," ","e","n","a","b","l","e","d"," ","a","n","d"," ","t","r","y"," ","a","g","a","i","n",".">>
\* rev 2
MsgNoItems2 == <<"N","o"," ","t","r","a","n","s","c","r","i","p","t"," ","i","t","e","m","s"," ","f","o","u","n","d">>
MsgPermissions2 == <<"Y","o","u","T","u","b","e"," ","A","P","I"," ","k","e","y"," ","d","o","e","s"," ","n","o","t"," ","h","a","v","e"," ","p","r","o","p","e","r"," ","p","e","r","m","i","s","s","i","o","n","s","."," ","P","l","e","a","s","e"," ","e","n","a","b","l","e"," ","Y","o","u","T","u","b","e"," ","D","a","t","a"," ","A","P","I"," ","v","3"," ","a","n","d"," ","C","a","p","t","i","o","n","s"," ","e","n","d","p","o","i","n","t",".">>
MsgNoCaptions2 == <<"T","h","i","s"," ","v","i","d","e","o"," ","d","o","e","s"," ","n","o","t"," ","h","a","v","e"," ","c","a","p","t","i","o","n","s"," ","a","v","a","i","l","a","b","l","e",".">>
MsgUnavailable2 == <<"T","h","e"," ","v","i","d","e","o"," ","i","s"," ","u","n","a","v","a","i","l","a","b","l","e"," ","o","r"," ","p","r","i","v","a","t","e",".">>
MsgFetchFailedPrefix2 == <<"F","a","i","l","e","d"," ","t","o"," ","f","e","t","c","h"," ","t","r","a","n","s","c","r","i","p","t",":"," ">>
\* rev 3
MsgCouldNotFetch3 == <<"C","o","u","l","d"," ","n","o","t"," ","f","e","t","c","h"," ","t","r","a","n","s","c","r","i","p","t","."," ","M","a","k","e"," ","s","u","r","e"," ","t","h","e"," ","v","i","d","e","o"," ","h","a","s"," ","c","a","p","t","i","o","n","s"," ","a","v","a","i","l","a","b","l","e",".">>

(***************************************************************************)
(* The phrases the code searches for.                                      *)
(***************************************************************************)
PhraseNotHaveAutomatic == <<"n","o","t"," ","h","a","v","e"," ","a","u","t","o","m","a","t","i","c"," ","c","a","p","t","i","o","n","s">>
PhraseVideoNotFound == <<"V","i","d","e","o"," ","n","o","t"," ","f","o","u","n","d">>
PhraseUnavailable == <<"u","n","a","v","a","i","l","a","b","l","e">>
PhraseCouldNotFind == <<"C","o","u","l","d"," ","n","o","t"," ","f","i","n","d"," ","a","u","t","o","m","a","t","i","c"," ","c","a","p","t","i","o","n","s">>
PhraseTranscriptDisabled == <<"T","r","a","n","s","c","r","i","p","t"," ","i","s"," ","d","i","s","a","b","l","e","d">>
PhraseSubtitlesDisabled == <<"s","u","b","t","i","t","l","e","s"," ","a","r","e"," ","d","i","s","a","b","l","e","d">>
PhrasePrivate == <<"p","r","i","v","a","t","e">>
Phrase403 == <<"4","0","3">>
PhraseVideoIsUnavailable == <<"V","i","d","e","o"," ","i","s"," ","u","n","a","v","a","i","l","a","b","l","e">>

(***************************************************************************)
(* What the outside world can answer.  An outcome is what one awaited      *)
(* call settles with: a value with an item list, a value without one       *)
(* (null / undefined), or a rejection carrying an Error message.           *)
(***************************************************************************)
Ok(items) == [kind |-> "ok", items |-> items, message |-> <<>>]
Null == [kind |-> "null", items |-> <<>>, message |-> <<>>]
Err(m) == [kind |-> "error", items |-> <<>>, message |-> m]

\* error texts of the providers
ProvDisabled == <<"T","r","a","n","s","c","r","i","p","t"," ","i","s"," ","d","i","s","a","b","l","e","d">>
ProvUnavailable == <<"V","i","d","e","o"," ","i","s"," ","u","n","a","v","a","i","l","a","b","l","e">>
ProvPrivateDisabled == <<"p","r","i","v","a","t","e",":"," ","s","u","b","t","i","t","l","e","s"," ","a","r","e"," ","d","i","s","a","b","l","e","d">>
ProvTimeout == <<"E","T","I","M","E","D","O","U","T">>
ProvForbidden == <<"4","0","3"," ","F","o","r","b","i","d","d","e","n">>
\* the same texts in another letter case
ProvDisabledLower == <<"t","r","a","n","s","c","r","i","p","t"," ","i","s"," ","d","i","s","a","b","l","e","d">>
ProvUnavailableUpper == <<"V","i","d","e","o"," ","i","s"," ","U","n","a","v","a","i","l","a","b","l","e">>
ProviderMsgs == {ProvDisabled, ProvUnavailable, ProvPrivateDisabled, ProvTimeout, ProvForbidden,
                 ProvDisabledLower, ProvUnavailableUpper}

SegmentText(i) == IF i % 2 = 1 THEN <<"H","e","l","l","o">> ELSE <<"w","o","r","l","d">>
SegmentLists == {[i \in 1..n |-> SegmentText(i)] : n \in 0..MaxSegments}
TrackLists == {<<>>, <<<<"e","n">>>>}
VideoLists == {<<>>, <<<<"T","i","t","l","e">>>>}

TranscriptOutcomes == {Ok(s) : s \in SegmentLists} \cup {Null} \cup {Err(m) : m \in ProviderMsgs}
CaptionsOutcomes == {Ok(t) : t \in TrackLists} \cup {Null} \cup {Err(m) : m \in ProviderMsgs}
VideosOutcomes == {Ok(v) : v \in VideoLists} \cup {Null} \cup {Err(m) : m \in {ProvTimeout, ProvUnavailable}}
VideoIds == {<<>>, <<"a","b","c">>}

Requests == 1..MaxRequests
Revisions == {1, 2, 3}

VARIABLES
    rev,        \* which revision of server.js is running
    apiKey,     \* API_KEY is set
    pc,         \* per request: "idle", "videos", "A", "B", "C", "done"
    videoId,    \* per request: req.body.videoId (<<>> when absent or empty)
    calls,      \* per request: the external calls started, in order
    returned,   \* per request: what each of those calls settled with, in order
    errors,     \* per request: getTranscript's local array errors
    title,      \* per request: videoResponse.data.items[0].snippet.title
    result,     \* per request: how getTranscript ended
    response    \* per request: the HTTP response sent

vars == <<rev, apiKey, pc, videoId, calls, returned, errors, title, result, response>>

NoResult == [type |-> "none", value |-> <<>>]
Returns(text) == [type |-> "transcript", value |-> text]
Throws(m) == [type |-> "error", value |-> m]

NoResponse == [status |-> 0, success |-> FALSE, error |-> <<>>, text |-> <<>>, videoTitle |-> <<>>]
Failure(code, m) == [status |-> code, success |-> FALSE, error |-> m, text |-> <<>>, videoTitle |-> <<>>]
Success(text, t) == [status |-> 200, success |-> TRUE, error |-> <<>>, text |-> text, videoTitle |-> t]

Init ==
    /\ rev \in Revisions
    /\ apiKey \in BOOLEAN
    /\ pc = [r \in Requests |-> "idle"]
    /\ videoId = [r \in Requests |-> <<>>]
    /\ calls = [r \in Requests |-> <<>>]
    /\ returned = [r \in Requests |-> <<>>]
    /\ errors = [r \in Requests |-> <<>>]
    /\ title = [r \in Requests |-> <<>>]
    /\ result = [r \in Requests |-> NoResult]
    /\ response = [r \in Requests |-> NoResponse]

(***************************************************************************)
(* The pure parts of the code.                                             *)
(***************************************************************************)
\* a slip in the test: length > 1
HasItemsSeveral(out) == out.kind = "ok" /\ Len(out.items) > 1

\* items && items.length > 0
HasItems(out) == out.kind = "ok" /\ Len(out.items) > 0

\* !videoResponse.data.items || videoResponse.data.items.length === 0
NoVideo(out) == out.kind # "ok" \/ Len(out.items) = 0

\* a slip in the catch block: the test for 'unavailable' left out
StatusCodeNotFoundOnly(m) ==
    IF rev = 3 THEN 500
    ELSE IF Includes(m, PhraseNotHaveAutomatic) THEN 400
    ELSE IF Includes(m, PhraseVideoNotFound) THEN 404
    ELSE 500

\* the status code chosen in the catch block of /api/convert
StatusCode(m) ==
    IF rev = 3 THEN 500
    ELSE IF Includes(m, PhraseNotHaveAutomatic) THEN 400
    ELSE IF Includes(m, PhraseVideoNotFound) \/ Includes(m, PhraseUnavailable) THEN 404
    ELSE 500

\* a slip in the classifier: the two specific branches in the other order
ClassifyUnavailableFirst(errs) ==
    IF \E i \in 1..Len(errs) :
           Includes(errs[i], PhrasePrivate) \/ Includes(errs[i], PhraseUnavailable)
    THEN MsgUnavailable
    ELSE IF \E i \in 1..Len(errs) :
           \/ Includes(errs[i], PhraseCouldNotFind)
           \/ Includes(errs[i], PhraseTranscriptDisabled)
           \/ Includes(errs[i], PhraseSubtitlesDisabled)
    THEN MsgNoCaptions
    ELSE MsgFetchFailed

\* a slip in the classifier: the first recorded error rethrown as it is
ClassifyFirstMessage(errs) ==
    IF errs # <<>> THEN errs[1] ELSE MsgFetchFailed

\* a slip in the classifier: only the first recorded error inspected
ClassifyFirstOnly(errs) ==
    IF errs # <<>> /\ (\/ Includes(errs[1], PhraseCouldNotFind)
                       \/ Includes(errs[1], PhraseTranscriptDisabled)
                       \/ Includes(errs[1], PhraseSubtitlesDisabled))
    THEN MsgNoCaptions
    ELSE IF errs # <<>> /\ (Includes(errs[1], PhrasePrivate) \/ Includes(errs[1], PhraseUnavailable))
    THEN MsgUnavailable
    ELSE MsgFetchFailed

\* rev 1: the error getTranscript throws once all three methods have failed
Classify(errs) ==
    IF \E i \in 1..Len(errs) :
           \/ Includes(errs[i], PhraseCouldNotFind)
           \/ Includes(errs[i], PhraseTranscriptDisabled)
           \/ Includes(errs[i], PhraseSubtitlesDisabled)
    THEN MsgNoCaptions
    ELSE IF \E i \in 1..Len(errs) :
           Includes(errs[i], PhrasePrivate) \/ Includes(errs[i], PhraseUnavailable)
    THEN MsgUnavailable
    ELSE MsgFetchFailed

\* rev 2: the error the outer catch of getTranscript throws
Classify2(m) ==
    IF Includes(m, Phrase403) THEN MsgPermissions2
    ELSE IF Includes(m, PhraseCouldNotFind) \/ Includes(m, PhraseTranscriptDisabled)
    THEN MsgNoCaptions2
    ELSE IF Includes(m, PhraseVideoIsUnavailable) THEN MsgUnavailable2
    ELSE MsgFetchFailedPrefix2 \o m

(***************************************************************************)
(* Steps of one request.  Each action runs the handler from one await to   *)
(* the next one, or to the response.                                       *)
(***************************************************************************)
\* res.status(code).json({success: false, error: m, ...})
Respond(r, resp) ==
    /\ response' = [response EXCEPT ![r] = resp]
    /\ pc' = [pc EXCEPT ![r] = "done"]

\* start an external call and suspend on it
Await(r, call) ==
    /\ calls' = [calls EXCEPT ![r] = Append(@, call)]
    /\ pc' = [pc EXCEPT ![r] = call]
    /\ UNCHANGED response

\* the catch block of the handler answers for Error(m)
Catch(r, m) == Respond(r, Failure(StatusCode(m), m))

\* getTranscript returned text: the handler answers with it
Resolved(r, text) ==
    /\ result' = [result EXCEPT ![r] = Returns(text)]
    /\ Respond(r, Success(text, title[r]))
    /\ UNCHANGED calls

\* getTranscript threw Error(m): the catch block of the handler answers
Rejected(r, m) ==
    /\ result' = [result EXCEPT ![r] = Throws(m)]
    /\ Catch(r, m)
    /\ UNCHANGED calls

\* a slip in the chain: the method that just failed is tried again
NextMethodRetry(call) == call

\* rev 1: the method tried after Method 1 (A) and after Method 2 (B)
NextMethod(call) == IF call = "A" THEN "B" ELSE "C"

\* a slip in the resolver: one errors array at module level, shared by all calls
ScopeShared(r) == 1

\* the errors array a call of getTranscript pushes to: its own local one
Scope(r) == r

\* the first call of getTranscript
FirstCall == IF rev = 2 THEN "C" ELSE "A"

\* the request arrives; the handler runs up to its first await
Receive(r, id) ==
    /\ pc[r] = "idle"
    /\ videoId' = [videoId EXCEPT ![r] = id]
    /\ IF rev \in {1, 2} /\ id = <<>>
       THEN Respond(r, Failure(400, MsgVideoIdRequired)) /\ UNCHANGED calls
       ELSE IF rev \in {1, 2} /\ ~apiKey
       THEN Respond(r, Failure(500, MsgApiKeyNotConfigured)) /\ UNCHANGED calls
       ELSE Await(r, "videos")
    /\ UNCHANGED <<rev, apiKey, returned, errors, title, result>>

\* youtube.videos.list settles
VideosListReturns(r, out) ==
    /\ pc[r] = "videos"
    /\ returned' = [returned EXCEPT ![r] = Append(@, out)]
    /\ IF out.kind = "error"
       THEN Catch(r, out.message) /\ UNCHANGED <<calls, title, errors>>
       ELSE IF NoVideo(out)
       THEN /\ IF rev = 3 THEN Catch(r, MsgVideoNotFound)
                           ELSE Respond(r, Failure(404, MsgVideoNotFound))
            /\ UNCHANGED <<calls, title>>
            /\ UNCHANGED errors
       ELSE /\ title' = [title EXCEPT ![r] = out.items[1]]
            /\ errors' = IF rev = 1 THEN [errors EXCEPT ![Scope(r)] = <<>>] ELSE errors
            /\ Await(r, FirstCall)
    /\ UNCHANGED <<rev, apiKey, videoId, result>>

\* YoutubeTranscript.fetchTranscript settles
FetchTranscriptReturns(r, out) ==
    /\ pc[r] = "A"
    /\ returned' = [returned EXCEPT ![r] = Append(@, out)]
    /\ CASE rev = 1 ->
              IF HasItems(out)
              THEN Resolved(r, Join(out.items)) /\ UNCHANGED errors
              ELSE /\ errors' = [errors EXCEPT ![Scope(r)] =
                          IF out.kind = "error" THEN Append(@, out.message) ELSE @]
                   /\ Await(r, NextMethod("A"))
                   /\ UNCHANGED result
         [] rev = 2 ->
              /\ IF out.kind = "error" THEN Rejected(r, Classify2(out.message))
                 ELSE IF ~HasItems(out) THEN Rejected(r, Classify2(MsgNoItems2))
                 ELSE Resolved(r, Join(out.items))
              /\ UNCHANGED errors
         [] rev = 3 ->
              /\ IF out.kind = "ok" THEN Resolved(r, Join(out.items))
                 ELSE Rejected(r, MsgCouldNotFetch3)
              /\ UNCHANGED errors
    /\ UNCHANGED <<rev, apiKey, videoId, title>>

\* getSubtitles settles (rev 1)
GetSubtitlesReturns(r, out) ==
    /\ pc[r] = "B"
    /\ returned' = [returned EXCEPT ![r] = Append(@, out)]
    /\ IF HasItems(out)
       THEN Resolved(r, Join(out.items)) /\ UNCHANGED errors
       ELSE /\ errors' = [errors EXCEPT ![Scope(r)] =
                   IF out.kind = "error" THEN Append(@, out.message) ELSE @]
            /\ Await(r, NextMethod("B"))
            /\ UNCHANGED result
    /\ UNCHANGED <<rev, apiKey, videoId, title>>

\* rev 1: the array errors after the try/catch around youtube.captions.list
ErrorsAfterCaptions(errs, out) ==
    IF out.kind = "error" THEN Append(errs, out.message)
    ELSE IF HasItems(out) THEN Append(errs, MsgCaptionsExist)
    ELSE errs

\* youtube.captions.list settles
CaptionsListReturns(r, out) ==
    /\ pc[r] = "C"
    /\ returned' = [returned EXCEPT ![r] = Append(@, out)]
    /\ CASE rev = 1 ->
              /\ errors' = [errors EXCEPT ![Scope(r)] = ErrorsAfterCaptions(@, out)]
              /\ Rejected(r, Classify(ErrorsAfterCaptions(errors[Scope(r)], out)))
         [] rev = 2 ->
              /\ IF out.kind = "error" /\ ~Includes(out.message, Phrase403)
                 THEN Rejected(r, Classify2(out.message))
                 ELSE Await(r, "A") /\ UNCHANGED result
              /\ UNCHANGED errors
    /\ UNCHANGED <<rev, apiKey, videoId, title>>

\* a step of request r, the outside world answering from the given sets
StepWith(r, videos, transcripts, captions) ==
    \/ \E id \in VideoIds : Receive(r, id)
    \/ \E out \in videos : VideosListReturns(r, out)
    \/ \E out \in transcripts : FetchTranscriptReturns(r, out)
    \/ \E out \in transcripts : GetSubtitlesReturns(r, out)
    \/ \E out \in captions : CaptionsListReturns(r, out)

Step(r) == StepWith(r, VideosOutcomes, TranscriptOutcomes, CaptionsOutcomes)

\* one request on its own
Next == Step(1)

Spec == Init /\ [][Next]_vars

\* every started call settles
FairSpec == Spec /\ WF_vars(Next)

\* several requests in flight: their steps interleave at the await points
ConcVideosOutcomes == {Ok(<<<<"T","i","t","l","e">>>>), Ok(<<>>)}
ConcTranscriptOutcomes ==
    {Ok(<<SegmentText(1)>>), Ok(<<>>), Err(ProvDisabled), Err(ProvDisabledLower)}
ConcCaptionsOutcomes == {Ok(<<<<"e","n">>>>), Ok(<<>>), Err(ProvUnavailable)}

NextConc ==
    \E r \in Requests :
        StepWith(r, ConcVideosOutcomes, ConcTranscriptOutcomes, ConcCaptionsOutcomes)

SpecConc == Init /\ [][NextConc]_vars

(***************************************************************************)
(* Vocabulary of the properties.                                           *)
(***************************************************************************)
Done(r) == pc[r] = "done"
\* the k-th external call of request r was to one of the text sources A, B
TextSource(r, k) == calls[r][k] \in {"A", "B"}
\* the ResolutionError kind of a message thrown by the rev 1 resolver
KindOf(m) ==
    CASE m = MsgNoCaptions -> "NoCaptionsAvailable"
      [] m = MsgUnavailable -> "VideoUnavailable"
      [] m = MsgCaptionsExist -> "CaptionsExistButInaccessible"
      [] m = MsgFetchFailed -> "TranscriptFetchFailed"
      [] OTHER -> "Unclassified"
Kinds == {"NoCaptionsAvailable", "VideoUnavailable", "CaptionsExistButInaccessible",
          "TranscriptFetchFailed"}
\* the failure messages the sources of request r rejected with
FailureMessages(r) ==
    {returned[r][k].message : k \in {j \in 1..Len(returned[r]) :
         calls[r][j] \in {"A", "B", "C"} /\ returned[r][j].kind = "error"}}
\* provider texts that say the video is private or unavailable / that captions are disabled
UnavailableSignals == {ProvUnavailable, ProvPrivateDisabled}
DisabledSignals == {ProvDisabled, ProvPrivateDisabled}
\* every message the handler and the resolver word themselves
FixedMessages ==
    {MsgVideoIdRequired, MsgApiKeyNotConfigured, MsgVideoNotFound, MsgCaptionsExist,
     MsgNoCaptions, MsgUnavailable, MsgFetchFailed, MsgNoItems2, MsgPermissions2,
     MsgNoCaptions2, MsgUnavailable2, MsgCouldNotFetch3}

(***************************************************************************)
(* C1: short-circuit.  Once a text source has settled with a non-empty     *)
(* segment list, that call is the last call of the resolution and the      *)
(* resolver has returned the joined text of exactly that list; in the      *)
(* three-source revision a success of A leaves B and C uncalled.           *)
(***************************************************************************)
C1_ShortCircuit ==
    \A r \in Requests : \A k \in 1..Len(returned[r]) :
        (TextSource(r, k) /\ returned[r][k].kind = "ok" /\ Len(returned[r][k].items) > 0)
        => /\ Len(calls[r]) = k
           /\ Done(r)
           /\ result[r] = Returns(Join(returned[r][k].items))
           /\ (rev = 1 /\ calls[r][k] = "A")
                 => \A j \in 1..Len(calls[r]) : calls[r][j] \notin {"B", "C"}

C1_Witness ==
    /\ rev = 1 /\ Done(1)
    /\ calls[1] = <<"videos", "A">>
    /\ returned[1][2].kind = "ok" /\ Len(returned[1][2].items) = 1
    /\ result[1].type = "transcript"

(***************************************************************************)
(* C2: when A rejects, B settles with zero segments and C lists at least   *)
(* one caption track, the resolver ends in CaptionsExistButInaccessible.   *)
(***************************************************************************)
C2_CaptionsExistButInaccessible ==
    \A r \in Requests :
        (/\ rev = 1 /\ Done(r) /\ Len(returned[r]) = 4
         /\ returned[r][2].kind = "error"
         /\ returned[r][3] = Ok(<<>>)
         /\ returned[r][4].kind = "ok" /\ Len(returned[r][4].items) > 0)
        => /\ result[r].type = "error"
           /\ KindOf(result[r].value) = "CaptionsExistButInaccessible"

(***************************************************************************)
(* C3 as stated: when the failure messages of a resolution carry both an   *)
(* unavailable/private signal and a captions-disabled signal, the          *)
(* resolver ends in VideoUnavailable.                                      *)
(***************************************************************************)
C3_UnavailableWins ==
    \A r \in Requests :
        (/\ rev = 1 /\ result[r].type = "error"
         /\ FailureMessages(r) \cap UnavailableSignals # {}
         /\ FailureMessages(r) \cap DisabledSignals # {})
        => KindOf(result[r].value) = "VideoUnavailable"

(***************************************************************************)
(* C3 as amended: with both signals among the failure messages, in one     *)
(* message or in two, in any source order, the resolver ends in            *)
(* NoCaptionsAvailable.                                                    *)
(***************************************************************************)
C3_NoCaptionsWins ==
    \A r \in Requests :
        (/\ rev = 1 /\ result[r].type = "error"
         /\ FailureMessages(r) \cap UnavailableSignals # {}
         /\ FailureMessages(r) \cap DisabledSignals # {})
        => KindOf(result[r].value) = "NoCaptionsAvailable"

C3_Witness ==
    /\ rev = 1 /\ Done(1) /\ Len(returned[1]) = 4
    /\ returned[1][2] = Err(ProvUnavailable)
    /\ returned[1][3] = Err(ProvDisabled)
    /\ result[1] = Throws(MsgNoCaptions)

(***************************************************************************)
(* C4: an empty segment list counts as a failure of that source: a         *)
(* failure is recorded for every source that did not deliver segments,     *)
(* and a returned transcript is the joined text of a non-empty list.       *)
(***************************************************************************)
C4_EmptyIsFailure ==
    \A r \in Requests :
        /\ rev = 1 =>
             Len(errors[r]) >= Cardinality({k \in 1..Len(returned[r]) :
                                   TextSource(r, k) /\ ~HasItems(returned[r][k])})
        /\ result[r].type = "transcript" =>
             \E k \in 1..Len(returned[r]) :
                 /\ TextSource(r, k) /\ Len(returned[r][k].items) > 0
                 /\ result[r].value = Join(returned[r][k].items)

(***************************************************************************)
(* C5: a request without videoId is answered 400, success:false, and no    *)
(* external call is made for it.                                           *)
(***************************************************************************)
C5_MissingVideoId ==
    \A r \in Requests :
        (pc[r] # "idle" /\ videoId[r] = <<>>)
        => /\ calls[r] = <<>>
           /\ response[r].status = 400 /\ ~response[r].success

(***************************************************************************)
(* C6: when videos.list settles without items the answer is 404,           *)
(* success:false, and the resolver has made no call.                       *)
(***************************************************************************)
C6_VideoNotFound ==
    \A r \in Requests :
        (/\ Len(returned[r]) >= 1
         /\ returned[r][1].kind # "error" /\ NoVideo(returned[r][1]))
        => /\ response[r].status = 404 /\ ~response[r].success
           /\ Len(calls[r]) = 1 /\ result[r] = NoResult

(***************************************************************************)
(* C7: a resolution that ends in NoCaptionsAvailable is answered 400,      *)
(* success:false.                                                          *)
(***************************************************************************)
C7_NoCaptionsIs400 ==
    \A r \in Requests :
        (rev = 1 /\ result[r].type = "error"
         /\ KindOf(result[r].value) = "NoCaptionsAvailable")
        => response[r].status = 400 /\ ~response[r].success

(***************************************************************************)
(* C8: a resolution that ends in VideoUnavailable is answered 404, one     *)
(* that ends in any error other than NoCaptionsAvailable and               *)
(* VideoUnavailable is answered 500; both with success:false.              *)
(***************************************************************************)
C8_StatusOfResolutionError ==
    \A r \in Requests :
        (rev = 1 /\ result[r].type = "error")
        => /\ ~response[r].success
           /\ KindOf(result[r].value) = "VideoUnavailable" => response[r].status = 404
           /\ KindOf(result[r].value) \notin {"VideoUnavailable", "NoCaptionsAvailable"}
                 => response[r].status = 500

C8_Witness ==
    /\ rev = 1 /\ Done(1)
    /\ result[1] = Throws(MsgUnavailable)
    /\ response[1].status = 404

(***************************************************************************)
(* C9: the error field of a failure response is one of the fixed messages  *)
(* of the handler and the resolver, never text of a provider.              *)
(***************************************************************************)
C9_NoRawProviderText ==
    \A r \in Requests :
        (Done(r) /\ ~response[r].success) => response[r].error \in FixedMessages

(***************************************************************************)
(* C10: whatever the three sources settle with, a call of getTranscript    *)
(* ends, and ends with one transcript (the joined text of a non-empty      *)
(* segment list) or with one error of the four fixed kinds.                *)
(***************************************************************************)
C10_OneResult ==
    rev = 1 => \A r \in Requests :
        /\ (result[r].type = "none") <=> (~Done(r) \/ Len(calls[r]) < 2)
        /\ result[r].type = "transcript" =>
               \E k \in 1..Len(returned[r]) :
                   TextSource(r, k) /\ result[r].value = Join(returned[r][k].items)
        /\ result[r].type = "error" => KindOf(result[r].value) \in Kinds

C10_ExactlyOneResult ==
    /\ []C10_OneResult
    /\ (rev = 1 /\ pc[1] \in {"A", "B", "C"}) ~> (result[1].type # "none")

C10_Witness ==
    /\ rev = 1 /\ Done(1) /\ Len(returned[1]) = 4
    /\ returned[1][2] = Err(ProvTimeout)
    /\ returned[1][3] = Null
    /\ returned[1][4] = Err(ProvForbidden)
    /\ result[1] = Throws(MsgFetchFailed)

(***************************************************************************)
(* C11: classification looks at every recorded failure.  A failure that    *)
(* carries a captions-disabled or an unavailable/private phrase, at any    *)
(* position and after any generic failure, decides the kind; the generic   *)
(* TranscriptFetchFailed results exactly when no failure carries one.      *)
(***************************************************************************)
C11_WholeFailureSet ==
    \A r \in Requests :
        (rev = 1 /\ result[r].type = "error")
        => /\ FailureMessages(r) \cap DisabledSignals # {}
                 => KindOf(result[r].value) = "NoCaptionsAvailable"
           /\ (/\ FailureMessages(r) \cap DisabledSignals = {}
               /\ FailureMessages(r) \cap UnavailableSignals # {})
                 => KindOf(result[r].value) = "VideoUnavailable"
           /\ KindOf(result[r].value) = "TranscriptFetchFailed"
                 <=> FailureMessages(r) \cap (DisabledSignals \cup UnavailableSignals) = {}

C11_Witness ==
    /\ rev = 1 /\ Done(1) /\ Len(returned[1]) = 4
    /\ returned[1][2] = Err(ProvTimeout)
    /\ returned[1][3] = Err(ProvForbidden)
    /\ returned[1][4] = Err(ProvUnavailable)
    /\ result[1] = Throws(MsgUnavailable)

(***************************************************************************)
(* C13: within one resolution the sources are called one at a time in the  *)
(* order A, B, C: at most one call is unsettled, the calls made are a      *)
(* prefix of A, B, C (none twice), and when a source is called every       *)
(* earlier one has settled without a non-empty segment list.               *)
(***************************************************************************)
MethodOrder == <<"A", "B", "C">>

C13_Sequential ==
    rev = 1 => \A r \in Requests :
        /\ Len(calls[r]) - Len(returned[r]) \in {0, 1}
        /\ (Len(calls[r]) = Len(returned[r]) + 1) <=> (pc[r] \in {"videos", "A", "B", "C"})
        /\ Len(calls[r]) <= 1 + Len(MethodOrder)
        /\ \A k \in 1..Len(calls[r]) :
               calls[r][k] = IF k = 1 THEN "videos" ELSE MethodOrder[k - 1]
        /\ \A k \in 2..Len(calls[r]) : \A j \in 2..(k - 1) :
               /\ j <= Len(returned[r])
               /\ TextSource(r, j) => ~(returned[r][j].kind = "ok" /\ Len(returned[r][j].items) > 0)

C13_Witness ==
    /\ rev = 1 /\ pc[1] = "C"
    /\ calls[1] = <<"videos", "A", "B", "C">>
    /\ Len(returned[1]) = 3
    /\ returned[1][2].kind = "error" /\ returned[1][3] = Ok(<<>>)

(***************************************************************************)
(* Letter case.                                                            *)
(***************************************************************************)
UpperLetters == <<"A","B","C","D","E","F","G","H","I","J","K","L","M",
                  "N","O","P","Q","R","S","T","U","V","W","X","Y","Z">>
LowerLetters == <<"a","b","c","d","e","f","g","h","i","j","k","l","m",
                  "n","o","p","q","r","s","t","u","v","w","x","y","z">>
LowerChar(c) ==
    IF \E i \in 1..Len(UpperLetters) : UpperLetters[i] = c
    THEN LowerLetters[CHOOSE i \in 1..Len(UpperLetters) : UpperLetters[i] = c]
    ELSE c
Lower(m) == [i \in 1..Len(m) |-> LowerChar(m[i])]
\* two failure lists that differ in letter case only
SameUpToCase(e1, e2) ==
    /\ Len(e1) = Len(e2)
    /\ \A i \in 1..Len(e1) : Lower(e1[i]) = Lower(e2[i])

(***************************************************************************)
(* C12: classification does not depend on letter case: two resolutions     *)
(* whose recorded failure messages differ in letter case only end in the   *)
(* same kind of error.                                                     *)
(***************************************************************************)
C12_CaseInsensitive ==
    rev = 1 => \A p, q \in Requests :
        (/\ result[p].type = "error" /\ result[q].type = "error"
         /\ SameUpToCase(errors[p], errors[q]))
        => KindOf(result[p].value) = KindOf(result[q].value)

(***************************************************************************)
(* C14: concurrent resolutions are isolated.  With the steps of several    *)
(* requests interleaved, the failure list of each resolution holds the     *)
(* failures of its own calls only, and its result and response are those   *)
(* of that request running alone with the same answers.                    *)
(***************************************************************************)
RECURSIVE OwnFailures(_, _)
\* the failures of the calls 2..k of request r, in order
OwnFailures(r, k) ==
    IF k < 2 THEN <<>>
    ELSE LET out == returned[r][k]
             before == OwnFailures(r, k - 1)
         IN  IF out.kind = "error" THEN Append(before, out.message)
             ELSE IF calls[r][k] = "C" /\ out.kind = "ok" /\ Len(out.items) > 0
             THEN Append(before, MsgCaptionsExist)
             ELSE before

\* the result of request r running alone with the answers it got
AloneResult(r) ==
    LET delivered == {k \in 2..Len(returned[r]) :
                         /\ TextSource(r, k)
                         /\ returned[r][k].kind = "ok" /\ Len(returned[r][k].items) > 0}
    IN
    IF delivered # {}
    THEN Returns(Join(returned[r][CHOOSE k \in delivered : \A j \in delivered : k <= j].items))
    ELSE IF Len(returned[r]) = 4
    THEN Throws(Classify(OwnFailures(r, 4)))
    ELSE NoResult

AloneResponse(r) ==
    CASE AloneResult(r).type = "transcript" -> Success(AloneResult(r).value, returned[r][1].items[1])
      [] AloneResult(r).type = "error" -> Failure(StatusCode(AloneResult(r).value), AloneResult(r).value)
      [] OTHER -> response[r]

C14_Isolated ==
    rev = 1 => \A r \in Requests :
        /\ errors[r] = OwnFailures(r, Len(returned[r]))
        /\ result[r] = AloneResult(r)
        /\ response[r] = AloneResponse(r)

C14_Witness ==
    /\ rev = 1 /\ pc[1] = "C" /\ pc[2] = "B"
    /\ errors[1] = <<ProvDisabledLower, ProvDisabled>>
    /\ errors[2] = <<ProvDisabledLower>>

=============================================================================
